---- MODULE Spec2Model ----
(***************************************************************************)
(* Model of the dwg2dxf HTTP gateway (src/main.rs).                        *)
(*                                                                         *)
(* Each request is one task of the tokio runtime.  A task occupies one of  *)
(* the runtime's worker threads while it runs synchronous code and gives   *)
(* the thread back at every `.await`.  The handler convert_dwg_to_dxf is   *)
(* cut at its awaits and at its calls into the filesystem and the process  *)
(* table, so that requests interleave exactly where the program lets them. *)
(*                                                                         *)
(* Texts are sequences of string tokens, byte strings are sequences of     *)
(* byte tokens, Option<T> is a sequence of length 0 (None) or 1 (Some).    *)
(***************************************************************************)
EXTENDS Integers, Sequences, FiniteSets, TLC

\* ------------------------------------------------------------------ bounds
NReq == 2          \* requests the server receives
NWorkers == 1      \* worker threads of the runtime (one per core)
MaxParts == 2      \* multipart fields a request can carry

Reqs == 1..NReq
Ids == 1..(2 * NReq)     \* every request draws at most two identifiers

\* ------------------------------------------------------------------ Option
None == <<>>
Some(x) == <<x>>
IsSome(o) == o # <<>>
Unwrap(o) == o[1]

\* ------------------------------------------------------------------ texts
\* str::contains
Contains(s, pat) ==
    \E i \in 0..(Len(s) - Len(pat)) : SubSeq(s, i + 1, i + Len(pat)) = pat

\* str::ends_with
EndsWith(s, suf) ==
    /\ Len(s) >= Len(suf)
    /\ SubSeq(s, Len(s) - Len(suf) + 1, Len(s)) = suf

\* char::to_lowercase on the characters filenames are drawn from
LowerChar(c) ==
    CASE c = "D" -> "d"
      [] c = "W" -> "w"
      [] c = "G" -> "g"
      [] c = "A" -> "a"
      [] c = "X" -> "x"
      [] c = "F" -> "f"
      [] OTHER -> c

\* str::to_lowercase
ToLowercase(s) == [i \in 1..Len(s) |-> LowerChar(s[i])]

\* the check without the lower-casing
HasDwgExtensionCaseSensitive(filename) == EndsWith(filename, <<".", "d", "w", "g">>)

\* the check of main.rs:72
HasDwgExtension(filename) == EndsWith(ToLowercase(filename), <<".", "d", "w", "g">>)

\* String::from_utf8_lossy on the bytes stderr is drawn from: "e" is an ASCII
\* byte, "xC3" "xA9" is the two-byte encoding of U+00E9, every byte that
\* is not part of a well-formed sequence becomes U+FFFD.
RECURSIVE FromUtf8Lossy(_)
FromUtf8Lossy(bytes) ==
    IF bytes = <<>> THEN <<>>
    ELSE IF Head(bytes) = "e" THEN <<"e">> \o FromUtf8Lossy(Tail(bytes))
    ELSE IF Head(bytes) = "xC3" /\ Len(bytes) >= 2 /\ bytes[2] = "xA9"
         THEN <<"U+00E9">> \o FromUtf8Lossy(Tail(Tail(bytes)))
    ELSE <<"U+FFFD">> \o FromUtf8Lossy(Tail(bytes))

\* ------------------------------------------------------------------ inputs
FieldNames == {Some(<<"file">>), Some(<<"other">>), None}

FileNames ==
    { <<"a", ".", "d", "w", "g">>,
      <<"a", ".", "D", "w", "G">>,
      <<".", "D", "W", "G">>,
      <<"a", ".", "d", "x", "f">>,
      <<"A", "D", "W", "G">>,
      <<"a", ".", "d", "w", "g", ".", "x">>,
      <<>> }

Datas == { <<"b1">>, <<"b2">> }              \* uploaded bytes
OutBytes == { <<"o1">>, <<"o2", "o3">> }     \* bytes the tool may write
StderrBytes == { <<>>, <<"e">>, <<"xC3", "xA9">>, <<"e", "xFF">> }
IoErrors == { "EIO" }                        \* std::io::Error texts

\* texts of the errors Multipart::next_field can return
MultipartErrors ==
    { <<"No", "boundary", "found">>,
      <<"multipart:", "No", "boundary", "found", "in", "header">>,
      <<"boundary", "found">>,
      <<"failed", "to", "read", "stream">> }

\* ------------------------------------------------------------------ errors
BadRequest(message) == [variant |-> "BadRequest", message |-> message]
InternalServerError(message) == [variant |-> "InternalServerError", message |-> message]

BAD_REQUEST == 400
INTERNAL_SERVER_ERROR == 500
OK == 200

\* every error mapped to the same status
IntoResponseAll500(e) ==
    [ status |-> INTERNAL_SERVER_ERROR,
      body   |-> e.message,
      content_type |-> "text/plain; charset=utf-8",
      content_disposition |-> None ]

\* impl IntoResponse for AppError
IntoResponse(e) ==
    [ status |-> IF e.variant = "BadRequest" THEN BAD_REQUEST ELSE INTERNAL_SERVER_ERROR,
      body   |-> e.message,
      content_type |-> "text/plain; charset=utf-8",
      content_disposition |-> None ]

\* the parser error passed on as it is
MapMultipartErrorRaw(e) == BadRequest(e)

\* the closure given to map_err at the next_field call (the message of
\* main.rs:60 is Korean: "a multipart/form-data request needs a boundary")
MapMultipartError(e) ==
    IF Contains(e, <<"No", "boundary", "found">>)
    THEN BadRequest(<<"multipart/form-data request needs a boundary">>)
    ELSE BadRequest(e)

\* the errors the handler returns, by the place that builds them
NoFilenameError == BadRequest(<<"No filename provided">>)
BadExtensionError == BadRequest(<<"File must be a .dwg file">>)
BodyReadError(e) == BadRequest(e)
CreateError(e) == InternalServerError(<<"Failed to create temp file: ", e>>)
WriteErrorBadRequest(e) == BadRequest(<<"Failed to write file: ", e>>)
WriteError(e) == InternalServerError(<<"Failed to write file: ", e>>)
NoFileErrorInternal == InternalServerError(<<"No DWG file provided">>)
NoFileError == BadRequest(<<"No DWG file provided">>)
LaunchError(e) == InternalServerError(<<"Failed to execute dwg2dxf: ", e>>)
ConversionFailedNoText(stderr) == InternalServerError(<<"Conversion failed: ">>)
ConversionFailed(stderr) ==
    InternalServerError(<<"Conversion failed: ">> \o FromUtf8Lossy(stderr))
NotCreatedError == InternalServerError(<<"DXF file was not created">>)
\* (the message of main.rs:135 is Korean: "the DXF file cannot be read: {}")
ReadBackError(e) == InternalServerError(<<"DXF read failed: ", e>>)

\* ------------------------------------------------------------------ paths
\* a temp file name that does not depend on the identifier
TempPathFixed(uuid, ext) == [id |-> 1, ext |-> ext]

\* std::env::temp_dir().join(format!("{}.<ext>", uuid))
TempPath(uuid, ext) == [id |-> uuid, ext |-> ext]
Paths == [id : Ids, ext : {"dwg", "dxf"}]

\* Uuid::new_v4: 122 random bits; the model takes the generated identifier
\* to differ from every identifier generated before.
UuidNewV4(used) == IF Ids \ used = {} THEN {}
                   ELSE { CHOOSE u \in Ids \ used : \A v \in Ids \ used : u <= v }

\* format!("attachment; filename=\"{}\"", filename)
ContentDisposition(filename) == <<"attachment; filename=\"", filename, "\"">>

\* the response without its Content-Disposition header
OkResponseNoDisposition(filename, content) ==
    [ status |-> OK,
      body   |-> content,
      content_type |-> "application/octet-stream",
      content_disposition |-> None ]

\* Response::builder().header(..).header(..).body(Body::from(file_content))
OkResponse(filename, content) ==
    [ status |-> OK,
      body   |-> content,
      content_type |-> "application/octet-stream",
      content_disposition |-> Some(ContentDisposition(filename)) ]

\* the text home() returns
Banner == <<"DWG to DXF Converter API">>

HomeResponse ==
    [ status |-> OK,
      body   |-> Banner,
      content_type |-> "text/plain; charset=utf-8",
      content_disposition |-> None ]

\* ------------------------------------------------------------------ state
VARIABLES
    pc,            \* where each request's task stands
    held,          \* the task occupies a worker thread
    nfields,       \* fields next_field has yielded to the request so far
    filename,      \* file_name() of the accepted `file` part (Option)
    data,          \* bytes of the accepted part (Option)
    dwg_file_path, \* Option<PathBuf> of the input temp file
    dxf_path,      \* Option: path handed to the tool with -o
    proc,          \* the child process of the request
    file_content,  \* Option: what tokio::fs::read returned
    resp,          \* Option: the response sent
    failure,       \* the Err the handler returned: its site, the AppError, its cause
    fs,            \* the temp directory: path -> Option(content)
    usedIds,       \* identifiers generated so far
    created,       \* per request: the paths it (or its tool) created
    removed,       \* per path: successful deletions
    attempts       \* per path: calls of remove_file

vars == << pc, held, nfields, filename, data, dwg_file_path, dxf_path, proc,
           file_content, resp, failure, fs, usedIds, created, removed, attempts >>

NoProc == [ state |-> "none", args |-> <<>>, status |-> 0, stderr |-> <<>>,
            read |-> None, wrote |-> None ]

NoFailure == [site |-> "none", error |-> None, cause |-> None]

Init ==
    /\ pc = [r \in Reqs |-> "idle"]
    /\ held = [r \in Reqs |-> FALSE]
    /\ nfields = [r \in Reqs |-> 0]
    /\ filename = [r \in Reqs |-> None]
    /\ data = [r \in Reqs |-> None]
    /\ dwg_file_path = [r \in Reqs |-> None]
    /\ dxf_path = [r \in Reqs |-> None]
    /\ proc = [r \in Reqs |-> NoProc]
    /\ file_content = [r \in Reqs |-> None]
    /\ resp = [r \in Reqs |-> None]
    /\ failure = [r \in Reqs |-> NoFailure]
    /\ fs = [p \in Paths |-> None]
    /\ usedIds = {}
    /\ created = [r \in Reqs |-> {}]
    /\ removed = [p \in Paths |-> 0]
    /\ attempts = [p \in Paths |-> 0]

\* a worker thread is free to poll a task that is ready
FreeWorker == Cardinality({r \in Reqs : held[r]}) < NWorkers

\* return Err(e) from the handler: the error becomes the response
ReturnErr(r, e, site, cause) ==
    /\ resp' = [resp EXCEPT ![r] = Some(IntoResponse(e))]
    /\ failure' = [failure EXCEPT ![r] = [site |-> site, error |-> Some(e),
                                          cause |-> Some(cause)]]
    /\ pc' = [pc EXCEPT ![r] = "done"]
    /\ held' = [held EXCEPT ![r] = FALSE]

\* ------------------------------------------------------------------ GET /
Home(r) ==
    /\ pc[r] = "idle"
    /\ FreeWorker
    /\ resp' = [resp EXCEPT ![r] = Some(HomeResponse)]
    /\ pc' = [pc EXCEPT ![r] = "done"]
    /\ UNCHANGED << held, nfields, filename, data, dwg_file_path, dxf_path, proc,
                    file_content, failure, fs, usedIds, created, removed, attempts >>

\* ------------------------------------------------------------------ POST /convert
\* the router calls the handler, which suspends at its first next_field().await
Accept(r) ==
    /\ pc[r] = "idle"
    /\ FreeWorker
    /\ pc' = [pc EXCEPT ![r] = "next_field"]
    /\ UNCHANGED << held, nfields, filename, data, dwg_file_path, dxf_path, proc,
                    file_content, resp, failure, fs, usedIds, created, removed, attempts >>

\* next_field() returned Err(e)
NextFieldErr(r) ==
    /\ pc[r] = "next_field"
    /\ FreeWorker
    /\ \E e \in MultipartErrors : ReturnErr(r, MapMultipartError(e), "multipart", e)
    /\ UNCHANGED << nfields, filename, data, dwg_file_path, dxf_path, proc,
                    file_content, fs, usedIds, created, removed, attempts >>

\* next_field() returned None: the loop ends with dwg_file_path = None
NextFieldNone(r) ==
    /\ pc[r] = "next_field"
    /\ FreeWorker
    /\ ReturnErr(r, NoFileError, "no_file", <<>>)
    /\ UNCHANGED << nfields, filename, data, dwg_file_path, dxf_path, proc,
                    file_content, fs, usedIds, created, removed, attempts >>

\* a `file` part without a filename or with another extension is passed over
\* and the scan goes on
NextFieldSomeContinue(r) ==
    /\ pc[r] = "next_field"
    /\ FreeWorker
    /\ nfields[r] < MaxParts
    /\ nfields' = [nfields EXCEPT ![r] = @ + 1]
    /\ \E fname \in FieldNames, file_name \in {None} \cup {Some(f) : f \in FileNames} :
          LET name == IF IsSome(fname) THEN Unwrap(fname) ELSE <<>> IN
          IF name # <<"file">> \/ ~IsSome(file_name)
          THEN UNCHANGED << pc, held, filename, resp, failure >>
          ELSE /\ filename' = [filename EXCEPT ![r] = file_name]
               /\ IF ~HasDwgExtension(Unwrap(file_name))
                  THEN UNCHANGED << pc, held, resp, failure >>
                  ELSE /\ pc' = [pc EXCEPT ![r] = "bytes"]
                       /\ UNCHANGED << held, resp, failure >>
    /\ UNCHANGED << data, dwg_file_path, dxf_path, proc, file_content, fs, usedIds,
                    created, removed, attempts >>

\* next_field() returned Some(field)
NextFieldSome(r) ==
    /\ pc[r] = "next_field"
    /\ FreeWorker
    /\ nfields[r] < MaxParts
    /\ nfields' = [nfields EXCEPT ![r] = @ + 1]
    /\ \E fname \in FieldNames, file_name \in {None} \cup {Some(f) : f \in FileNames} :
          LET name == IF IsSome(fname) THEN Unwrap(fname) ELSE <<>> IN
          IF name # <<"file">>
          THEN UNCHANGED << pc, held, filename, resp, failure >>
          ELSE IF ~IsSome(file_name)
          THEN /\ ReturnErr(r, NoFilenameError, "no_filename", <<>>)
               /\ UNCHANGED filename
          ELSE /\ filename' = [filename EXCEPT ![r] = file_name]
               /\ IF ~HasDwgExtension(Unwrap(file_name))
                  THEN ReturnErr(r, BadExtensionError, "bad_ext", <<>>)
                  ELSE /\ pc' = [pc EXCEPT ![r] = "bytes"]
                       /\ UNCHANGED << held, resp, failure >>
    /\ UNCHANGED << data, dwg_file_path, dxf_path, proc, file_content, fs, usedIds,
                    created, removed, attempts >>

\* field.bytes().await returned; on Ok the handler draws the input identifier
\* and calls File::create
BytesCreate(r) ==
    /\ pc[r] = "bytes"
    /\ FreeWorker
    /\ \/ /\ \E e \in MultipartErrors : ReturnErr(r, BodyReadError(e), "body_read", e)
          /\ UNCHANGED << data, dwg_file_path, fs, usedIds, created >>
       \/ \E d \in Datas, uuid \in UuidNewV4(usedIds) :
            LET temp_file_path == TempPath(uuid, "dwg") IN
            /\ data' = [data EXCEPT ![r] = Some(d)]
            /\ usedIds' = usedIds \cup {uuid}
            /\ \/ \E e \in IoErrors :
                    /\ ReturnErr(r, CreateError(e), "create", <<e>>)
                    /\ UNCHANGED << dwg_file_path, fs, created >>
               \/ /\ fs' = [fs EXCEPT ![temp_file_path] = Some(<<>>)]
                  /\ created' = [created EXCEPT ![r] = @ \cup {temp_file_path}]
                  /\ dwg_file_path' = [dwg_file_path EXCEPT ![r] = Some(temp_file_path)]
                  /\ pc' = [pc EXCEPT ![r] = "write"]
                  /\ held' = [held EXCEPT ![r] = TRUE]
                  /\ UNCHANGED << resp, failure >>
    /\ UNCHANGED << nfields, filename, dxf_path, proc, file_content, removed, attempts >>

\* write_all(&mut temp_file, &data)
Write(r) ==
    /\ pc[r] = "write"
    /\ \/ \E e \in IoErrors :
            /\ ReturnErr(r, WriteError(e), "write", <<e>>)
            /\ UNCHANGED fs
       \/ /\ fs' = [fs EXCEPT ![Unwrap(dwg_file_path[r])] = data[r]]
          /\ pc' = [pc EXCEPT ![r] = "launch"]
          /\ UNCHANGED << held, resp, failure >>
    /\ UNCHANGED << nfields, filename, data, dwg_file_path, dxf_path, proc, file_content,
                    usedIds, created, removed, attempts >>

\* the two paths in the other order
ToolArgsSwapped(out, in) == <<"-o", in, out>>

\* .arg("-o").arg(&dxf_path).arg(&dwg_path)
ToolArgs(out, in) == <<"-o", out, in>>

\* the output identifier is drawn and Command::new(..).arg("-o").arg(&dxf_path)
\* .arg(&dwg_path).output() starts the child; output() then blocks the thread
Launch(r) ==
    /\ pc[r] = "launch"
    /\ \E output_id \in UuidNewV4(usedIds) :
         LET path == TempPath(output_id, "dxf") IN
         /\ usedIds' = usedIds \cup {output_id}
         /\ dxf_path' = [dxf_path EXCEPT ![r] = Some(path)]
         /\ \/ \E e \in IoErrors :
                 /\ ReturnErr(r, LaunchError(e), "launch", <<e>>)
                 /\ UNCHANGED proc
            \/ /\ proc' = [proc EXCEPT ![r] =
                    [NoProc EXCEPT !.state = "running",
                                   !.args = ToolArgs(path, Unwrap(dwg_file_path[r]))]]
               /\ pc' = [pc EXCEPT ![r] = "waiting"]
               /\ UNCHANGED << held, resp, failure >>
    /\ UNCHANGED << nfields, filename, data, dwg_file_path, file_content, fs, created,
                    removed, attempts >>

\* the external tool: it reads the file named by its last argument, may write
\* the file named after -o, and exits with a status and a standard error text
\* (the handler looks at the standard error of a failed run only, so a run
\* that exits 0 is taken to leave it empty)
ToolExit(r) ==
    /\ proc[r].state = "running"
    /\ LET out == proc[r].args[2]
           in  == proc[r].args[3] IN
       \E status \in {0, 1}, wrote \in {None} \cup {Some(B) : B \in OutBytes} :
       \E err \in IF status = 0 THEN {<<>>} ELSE StderrBytes :
         /\ proc' = [proc EXCEPT ![r] =
                [@ EXCEPT !.state = "exited", !.status = status, !.stderr = err,
                          !.read = fs[in], !.wrote = wrote]]
         /\ IF IsSome(wrote)
            THEN /\ fs' = [fs EXCEPT ![out] = wrote]
                 /\ created' = [created EXCEPT ![r] = @ \cup {out}]
            ELSE UNCHANGED << fs, created >>
    /\ UNCHANGED << pc, held, nfields, filename, data, dwg_file_path, dxf_path,
                    file_content, resp, failure, usedIds, removed, attempts >>

\* the two temp files deleted once the output is known to exist, before it is read
CheckOutputThenCleanup(r) ==
    /\ pc[r] = "waiting"
    /\ proc[r].state = "exited"
    /\ IF proc[r].status # 0
       THEN /\ ReturnErr(r, ConversionFailed(proc[r].stderr), "nonzero", proc[r].stderr)
            /\ UNCHANGED << fs, removed, attempts >>
       ELSE IF ~IsSome(fs[Unwrap(dxf_path[r])])
       THEN /\ ReturnErr(r, NotCreatedError, "missing", <<>>)
            /\ UNCHANGED << fs, removed, attempts >>
       ELSE LET gone == {Unwrap(dwg_file_path[r]), Unwrap(dxf_path[r])} IN
            /\ fs' = [p \in Paths |-> IF p \in gone THEN None ELSE fs[p]]
            /\ removed' = [p \in Paths |-> IF p \in gone THEN removed[p] + 1
                                           ELSE removed[p]]
            /\ attempts' = [p \in Paths |-> IF p \in gone THEN attempts[p] + 1
                                            ELSE attempts[p]]
            /\ pc' = [pc EXCEPT ![r] = "read"]
            /\ held' = [held EXCEPT ![r] = FALSE]
            /\ UNCHANGED << resp, failure >>
    /\ UNCHANGED << nfields, filename, data, dwg_file_path, dxf_path, proc, file_content,
                    usedIds, created >>

\* output() returned: the status is tested, then dxf_path.exists(); the handler
\* then suspends at tokio::fs::read(&dxf_path).await
CheckOutput(r) ==
    /\ pc[r] = "waiting"
    /\ proc[r].state = "exited"
    /\ IF proc[r].status # 0
       THEN ReturnErr(r, ConversionFailed(proc[r].stderr), "nonzero", proc[r].stderr)
       ELSE IF ~IsSome(fs[Unwrap(dxf_path[r])])
       THEN ReturnErr(r, NotCreatedError, "missing", <<>>)
       ELSE /\ pc' = [pc EXCEPT ![r] = "read"]
            /\ held' = [held EXCEPT ![r] = FALSE]
            /\ UNCHANGED << resp, failure >>
    /\ UNCHANGED << nfields, filename, data, dwg_file_path, dxf_path, proc, file_content,
                    fs, usedIds, created, removed, attempts >>

\* tokio::fs::read(&dxf_path).await returned
Read(r) ==
    /\ pc[r] = "read"
    /\ FreeWorker
    /\ \/ \E e \in IoErrors :
            /\ ReturnErr(r, ReadBackError(e), "readback", <<e>>)
            /\ UNCHANGED file_content
       \/ /\ IsSome(fs[Unwrap(dxf_path[r])])
          /\ file_content' = [file_content EXCEPT ![r] = fs[Unwrap(dxf_path[r])]]
          /\ pc' = [pc EXCEPT ![r] = "remove_dwg"]
          /\ held' = [held EXCEPT ![r] = TRUE]
          /\ UNCHANGED << resp, failure >>
    /\ UNCHANGED << nfields, filename, data, dwg_file_path, dxf_path, proc, fs, usedIds,
                    created, removed, attempts >>

\* fs::remove_file(path) with its result dropped: the file is deleted, or
\* the deletion fails and the file stays
RemoveFile(path) ==
    /\ attempts' = [attempts EXCEPT ![path] = @ + 1]
    /\ \/ /\ IsSome(fs[path])
          /\ fs' = [fs EXCEPT ![path] = None]
          /\ removed' = [removed EXCEPT ![path] = @ + 1]
       \/ UNCHANGED << fs, removed >>

\* fs::remove_file(&dwg_path) with its error returned to the caller
RemoveDwgPropagating(r) ==
    /\ pc[r] = "remove_dwg"
    /\ attempts' = [attempts EXCEPT ![Unwrap(dwg_file_path[r])] = @ + 1]
    /\ \/ /\ IsSome(fs[Unwrap(dwg_file_path[r])])
          /\ fs' = [fs EXCEPT ![Unwrap(dwg_file_path[r])] = None]
          /\ removed' = [removed EXCEPT ![Unwrap(dwg_file_path[r])] = @ + 1]
          /\ pc' = [pc EXCEPT ![r] = "remove_dxf"]
          /\ UNCHANGED << held, resp, failure >>
       \/ /\ \E e \in IoErrors :
               ReturnErr(r, InternalServerError(<<"Failed to remove file: ", e>>),
                         "cleanup", <<e>>)
          /\ UNCHANGED << fs, removed >>
    /\ UNCHANGED << nfields, filename, data, dwg_file_path, dxf_path, proc,
                    file_content, usedIds, created >>

\* let _ = fs::remove_file(&dwg_path)
RemoveDwg(r) ==
    /\ pc[r] = "remove_dwg"
    /\ RemoveFile(Unwrap(dwg_file_path[r]))
    /\ pc' = [pc EXCEPT ![r] = "remove_dxf"]
    /\ UNCHANGED << held, nfields, filename, data, dwg_file_path, dxf_path, proc,
                    file_content, resp, failure, usedIds, created >>

\* the name of the download derived from the upload's filename (its length
\* stands for the name)
DownloadNameFromUpload(r) == [id |-> 100 + Len(Unwrap(filename[r])), ext |-> "dxf"]

\* let filename = dxf_filename.clone()
DownloadName(r) == Unwrap(dxf_path[r])

\* let _ = fs::remove_file(&dxf_path), then the Ok(Response) is returned
RemoveDxf(r) ==
    /\ pc[r] = "remove_dxf"
    /\ RemoveFile(Unwrap(dxf_path[r]))
    /\ resp' = [resp EXCEPT ![r] =
           Some(OkResponse(DownloadName(r), Unwrap(file_content[r])))]
    /\ pc' = [pc EXCEPT ![r] = "done"]
    /\ held' = [held EXCEPT ![r] = FALSE]
    /\ UNCHANGED << nfields, filename, data, dwg_file_path, dxf_path, proc, file_content,
                    failure, usedIds, created >>

\* the connection may also be closed while the handler waits for its child
CancelWhileWaiting(r) ==
    /\ pc[r] \in {"next_field", "bytes", "waiting", "read"}
    /\ pc' = [pc EXCEPT ![r] = "cancelled"]
    /\ held' = [held EXCEPT ![r] = FALSE]
    /\ UNCHANGED << nfields, filename, data, dwg_file_path, dxf_path, proc,
                    file_content, resp, failure, fs, usedIds, created, removed, attempts >>

\* the connection is closed while the handler is suspended: its future is dropped
Cancel(r) ==
    /\ pc[r] \in {"next_field", "bytes", "read"}
    /\ pc' = [pc EXCEPT ![r] = "cancelled"]
    /\ UNCHANGED << held, nfields, filename, data, dwg_file_path, dxf_path, proc,
                    file_content, resp, failure, fs, usedIds, created, removed, attempts >>

Next ==
    \E r \in Reqs :
       \/ Home(r)
       \/ Accept(r)
       \/ NextFieldErr(r)
       \/ NextFieldNone(r)
       \/ NextFieldSome(r)
       \/ BytesCreate(r)
       \/ Write(r)
       \/ Launch(r)
       \/ ToolExit(r)
       \/ CheckOutput(r)
       \/ Read(r)
       \/ RemoveDwg(r)
       \/ RemoveDxf(r)
       \/ Cancel(r)

Spec == Init /\ [][Next]_vars

\* the steps the runtime takes for the task of r: it polls the task whenever
\* the task can go on and a worker thread is free
HandlerStep(r) ==
    \/ NextFieldErr(r)
    \/ NextFieldNone(r)
    \/ NextFieldSome(r)
    \/ BytesCreate(r)
    \/ Write(r)
    \/ Launch(r)
    \/ CheckOutput(r)
    \/ Read(r)
    \/ RemoveDwg(r)
    \/ RemoveDxf(r)

\* the runtime is fair to every task; nothing makes the external tool exit,
\* a client connect or disconnect
FairSpec == Spec /\ \A r \in Reqs : WF_vars(HandlerStep(r))

\* ------------------------------------------------------------------ typing
TypeOK ==
    /\ \A r \in Reqs : pc[r] \in {"idle", "next_field", "bytes", "write", "launch",
                                   "waiting", "read", "remove_dwg", "remove_dxf",
                                   "done", "cancelled"}
    /\ Cardinality({r \in Reqs : held[r]}) <= NWorkers

\* ------------------------------------------------------------------ properties
\* the request has ended: a response was returned or the connection was closed
Ended(r) == pc[r] \in {"done", "cancelled"}

Responded(r, status) == IsSome(resp[r]) /\ Unwrap(resp[r]).status = status

\* the tool of r has exited with status 0 / with a nonzero status
ExitedZero(r) == proc[r].state = "exited" /\ proc[r].status = 0
ExitedNonzero(r) == proc[r].state = "exited" /\ proc[r].status # 0

\* C1: whichever way a /convert request ends (200, 400, 500, connection
\* closed at a suspension point), every temp file created during it, the
\* input <uuid>.dwg and the output <uuid>.dxf, has been deleted exactly once
\* and none remains on disk.
C1_TempFilesDeleted ==
    \A r \in Reqs :
       Ended(r) => \A p \in created[r] : ~IsSome(fs[p]) /\ removed[p] = 1

\* C2 (as stated): when the tool exits 0 after writing B, the request is
\* answered 200 with Content-Type application/octet-stream, body B and
\* Content-Disposition attachment; filename="<generated-id>.dxf".
C2_SuccessAlways200 ==
    \A r \in Reqs :
       (pc[r] = "done" /\ ExitedZero(r) /\ IsSome(proc[r].wrote))
       => resp[r] = Some([ status |-> 200,
                           body |-> Unwrap(proc[r].wrote),
                           content_type |-> "application/octet-stream",
                           content_disposition |->
                               Some(<<"attachment; filename=\"",
                                      [id |-> Unwrap(dxf_path[r]).id, ext |-> "dxf"],
                                      "\"">>) ])

\* C2 (amended): when the tool exits 0 after writing B and the output file
\* is read back without an I/O error, the request is answered 200 with
\* Content-Type application/octet-stream, body exactly B and
\* Content-Disposition attachment; filename="<generated-id>.dxf", the
\* generated name being the one of the output path handed to the tool.
C2_SuccessResponse ==
    \A r \in Reqs :
       (pc[r] = "done" /\ ExitedZero(r) /\ IsSome(proc[r].wrote)
          /\ failure[r].site # "readback")
       => /\ resp[r] = Some([ status |-> 200,
                              body |-> Unwrap(proc[r].wrote),
                              content_type |-> "application/octet-stream",
                              content_disposition |->
                                  Some(<<"attachment; filename=\"",
                                         [id |-> Unwrap(dxf_path[r]).id, ext |-> "dxf"],
                                         "\"">>) ])
          /\ proc[r].args[2] = Unwrap(dxf_path[r])

C2_Witness ==
    \E r \in Reqs :
       /\ pc[r] = "done" /\ ExitedZero(r)
       /\ proc[r].wrote = Some(<<"o2", "o3">>)
       /\ Responded(r, 200)

\* C3: when the tool exits 0 but the output path does not exist, the
\* request is answered 500 with the "not created" message and no temp file
\* of the request, in particular not its input file, is left behind.
C3_MissingOutput ==
    \A r \in Reqs :
       (pc[r] = "done" /\ ExitedZero(r) /\ ~IsSome(proc[r].wrote))
       => /\ Responded(r, 500)
          /\ Unwrap(resp[r]).body = <<"DXF file was not created">>
          /\ \A p \in created[r] : ~IsSome(fs[p])

\* C4: when the tool exits with a nonzero status the output file is never
\* read, no 200 is produced, and the request is answered 500 with a message
\* that contains the text the tool wrote to standard error (as decoded by
\* from_utf8_lossy; the very bytes when they are ASCII), whether or not the
\* tool created the output file.
C4_NonzeroExit ==
    \A r \in Reqs :
       ExitedNonzero(r)
       => /\ file_content[r] = None
          /\ pc[r] \in {"waiting", "done"}
          /\ ~Responded(r, 200)
          /\ pc[r] = "done" =>
               /\ Responded(r, 500)
               /\ Contains(Unwrap(resp[r]).body, FromUtf8Lossy(proc[r].stderr))
               /\ (\A i \in 1..Len(proc[r].stderr) : proc[r].stderr[i] = "e")
                     => Contains(Unwrap(resp[r]).body, proc[r].stderr)
               /\ (proc[r].stderr = <<"xC3", "xA9">>)
                     => Contains(Unwrap(resp[r]).body, <<"U+00E9">>)

C4_Witness ==
    \E r \in Reqs :
       /\ pc[r] = "done" /\ ExitedNonzero(r)
       /\ proc[r].stderr = <<"e">>
       /\ IsSome(proc[r].wrote)
       /\ Responded(r, 500)

\* C5: a request whose multipart stream ends without a part named `file`
\* (no part at all, or only parts with other names) is answered 400 with the
\* message that no file was provided; nothing was created for it.
C5_NoFilePart ==
    \A r \in Reqs :
       failure[r].site = "no_file"
       => /\ resp[r] = Some([ status |-> 400,
                              body |-> <<"No DWG file provided">>,
                              content_type |-> "text/plain; charset=utf-8",
                              content_disposition |-> None ])
          /\ filename[r] = None /\ dwg_file_path[r] = None /\ created[r] = {}

C5_Witness ==
    \E r, q \in Reqs :
       /\ failure[r].site = "no_file" /\ nfields[r] = 0
       /\ failure[q].site = "no_file" /\ nfields[q] = MaxParts

\* the filename ends with .dwg in some mix of upper and lower case
IsDwgName(f) ==
    /\ Len(f) >= 4
    /\ f[Len(f) - 3] = "."
    /\ f[Len(f) - 2] \in {"d", "D"}
    /\ f[Len(f) - 1] \in {"w", "W"}
    /\ f[Len(f)] \in {"g", "G"}

\* C6: the extension check is case-insensitive and decisive: a `file` part
\* whose filename does not end with .dwg (in any case) always yields 400, and
\* one whose filename ends with .dwg in any mix of case is never rejected by
\* this check.
C6_ExtensionCheck ==
    \A r \in Reqs :
       IsSome(filename[r])
       => IF IsDwgName(Unwrap(filename[r]))
          THEN failure[r].site # "bad_ext"
          ELSE pc[r] = "done" /\ Responded(r, 400) /\ failure[r].site = "bad_ext"

C6_Witness ==
    \E r, q \in Reqs :
       /\ filename[r] = Some(<<"a", ".", "D", "w", "G">>) /\ pc[r] = "bytes"
       /\ filename[q] = Some(<<"A", "D", "W", "G">>) /\ Responded(q, 400)

\* the parse errors that report a missing boundary
NoBoundaryErrors ==
    { <<"No", "boundary", "found">>,
      <<"multipart:", "No", "boundary", "found", "in", "header">> }

\* C7: a multipart parse failure always yields 400; when the failure is the
\* missing boundary the message is the boundary-specific one and not the raw
\* parser error, otherwise it is the parser's own text.
C7_MalformedMultipart ==
    \A r \in Reqs :
       failure[r].site = "multipart"
       => /\ Responded(r, 400)
          /\ LET e == Unwrap(failure[r].cause)
                 body == Unwrap(resp[r]).body IN
             IF e \in NoBoundaryErrors
             THEN body = <<"multipart/form-data request needs a boundary">> /\ body # e
             ELSE body = e

C7_Witness ==
    \E r, q \in Reqs :
       /\ failure[r].site = "multipart"
       /\ failure[r].cause = Some(<<"multipart:", "No", "boundary", "found", "in", "header">>)
       /\ failure[q].site = "multipart"
       /\ failure[q].cause = Some(<<"boundary", "found">>)

\* the paths a request works on
PathsOf(r) ==
    created[r] \cup {Unwrap(o) : o \in {o \in {dwg_file_path[r], dxf_path[r]} : IsSome(o)}}

\* C8: under every interleaving no two temp files, of the same or of
\* different requests, share a path; no request works on a path of another
\* request; and the body of a 200 response is what the request's own tool
\* wrote after reading the request's own upload.
C8_NoCollision ==
    /\ \A r, q \in Reqs : r # q => PathsOf(r) \cap PathsOf(q) = {}
    /\ \A r \in Reqs :
          /\ (IsSome(dwg_file_path[r]) /\ IsSome(dxf_path[r]))
                => dwg_file_path[r] # dxf_path[r]
          /\ proc[r].state = "exited" => proc[r].read = data[r]
          /\ Responded(r, 200) /\ IsSome(data[r])
                => /\ proc[r].read = data[r]
                   /\ Some(Unwrap(resp[r]).body) = proc[r].wrote

C8_Witness ==
    \E r, q \in Reqs :
       /\ r # q
       /\ Responded(r, 200) /\ Responded(q, 200)
       /\ IsSome(data[r]) /\ IsSome(data[q]) /\ data[r] # data[q]
       /\ proc[r].wrote # proc[q].wrote

\* the task of r is suspended at an await (or not yet started) and can be polled
Ready(r) == pc[r] \in {"idle", "next_field", "bytes", "read"}

\* C9: while a /convert request waits for its external tool to exit, every
\* other request that is ready to run can be run.
C9_NonBlocking ==
    \A r, q \in Reqs :
       (pc[r] = "waiting" /\ proc[r].state = "running" /\ q # r /\ Ready(q))
       => FreeWorker

ClientSites == {"multipart", "no_file", "no_filename", "bad_ext", "body_read"}
ServerSites == {"launch", "nonzero", "missing", "create", "write", "readback"}

\* C10: every failed /convert request is answered with the status of the
\* class of its failure, 400 for the client-input failures and 500 for the
\* tool and temp-file I/O failures, and the body is exactly the message of
\* the error; a response other than 200 is always such a failure.
C10_StatusByClass ==
    \A r \in Reqs :
       /\ failure[r].site # "none"
            => /\ pc[r] = "done"
               /\ failure[r].site \in ClientSites \cup ServerSites
               /\ Responded(r, IF failure[r].site \in ClientSites THEN 400 ELSE 500)
               /\ Unwrap(resp[r]).body = Unwrap(failure[r].error).message
               /\ Unwrap(failure[r].error).variant =
                     (IF failure[r].site \in ClientSites THEN "BadRequest"
                      ELSE "InternalServerError")
       /\ (IsSome(resp[r]) /\ ~Responded(r, 200)) => failure[r].site # "none"

C10_Witness ==
    \E r, q \in Reqs :
       /\ failure[r].site = "body_read" /\ Responded(r, 400)
       /\ failure[q].site = "readback" /\ Responded(q, 500)

\* the response of r is the 200 of a conversion
Converted(r) == Responded(r, 200) /\ IsSome(file_content[r])

\* the headers of the response of r, the identifier generated for r replaced by 0
HeadersModuloId(r) ==
    LET cd == Unwrap(Unwrap(resp[r]).content_disposition)
        name == IF cd[2].id = Unwrap(dxf_path[r]).id THEN [cd[2] EXCEPT !.id = 0] ELSE cd[2]
    IN  << Unwrap(resp[r]).content_type, cd[1], name, cd[3] >>

\* C11: the Content-Disposition of a 200 response names the generated output
\* file and nothing of the uploaded filename: it is attachment;
\* filename="<generated-id>.dxf", and two successful requests, whatever their
\* uploaded filenames, have the same headers up to the generated identifier.
C11_HeaderFromGeneratedName ==
    /\ \A r \in Reqs :
          Converted(r)
          => LET cd == Unwrap(Unwrap(resp[r]).content_disposition) IN
             /\ Len(cd) = 3
             /\ cd[1] = "attachment; filename=\""
             /\ cd[2] = Unwrap(dxf_path[r])
             /\ cd[2] = proc[r].args[2]
             /\ cd[3] = "\""
    /\ \A r, q \in Reqs :
          (Converted(r) /\ Converted(q)) => HeadersModuloId(r) = HeadersModuloId(q)

C11_Witness ==
    \E r, q \in Reqs :
       /\ Converted(r) /\ Converted(q)
       /\ filename[r] = Some(<<"a", ".", "d", "w", "g">>)
       /\ filename[q] = Some(<<".", "D", "W", "G">>)

\* remove_file has been called on a temp file of r
Released(r) == \E p \in PathsOf(r) : attempts[p] > 0

\* C12: read-then-delete: while the output file is being read, neither temp
\* file of the request has been released and the output file is on disk;
\* a temp file is released only once the whole content of the output file is
\* in memory; and the body of the 200 response is that content, the bytes the
\* tool wrote.
C12_ReadThenDelete ==
    \A r \in Reqs :
       /\ pc[r] = "read" => ~Released(r) /\ IsSome(fs[Unwrap(dxf_path[r])])
       /\ ~IsSome(file_content[r]) => ~Released(r)
       /\ IsSome(file_content[r]) => file_content[r] = proc[r].wrote
       /\ Converted(r) => Unwrap(resp[r]).body = Unwrap(file_content[r])

C12_Witness ==
    \E r \in Reqs :
       /\ Converted(r)
       /\ removed[Unwrap(dxf_path[r])] = 1 /\ removed[Unwrap(dwg_file_path[r])] = 1
       /\ Unwrap(resp[r]).body = <<"o2", "o3">>

\* next_field has yielded a part named `file` to r
FileSeen(r) == IsSome(filename[r]) \/ failure[r].site = "no_filename"

\* C13: only the first part named `file` decides the request. While the scan
\* goes on no `file` part has been seen and the parts passed over have left
\* nothing behind; once a `file` part has been seen no further part is read
\* and its filename stays the one that was checked; a `file` part without a
\* filename or with a wrong extension ends the request with 400 for good; at
\* most one input temp file is created per request.
C13_FirstFilePartDecides ==
    /\ [](\A r \in Reqs :
            /\ pc[r] = "next_field"
                 => ~FileSeen(r) /\ data[r] = None /\ created[r] = {} /\ resp[r] = None
            /\ FileSeen(r) => nfields[r] >= 1
            /\ failure[r].site \in {"no_filename", "bad_ext"}
                 => pc[r] = "done" /\ Responded(r, 400) /\ data[r] = None
            /\ Cardinality({p \in created[r] : p.ext = "dwg"}) <= 1)
    /\ [][\A r \in Reqs :
            FileSeen(r) => /\ nfields'[r] = nfields[r]
                           /\ filename'[r] = filename[r]
                           /\ pc'[r] # "next_field"
                           /\ (pc[r] = "done" => pc'[r] = "done" /\ resp'[r] = resp[r])]_vars

C13_Witness ==
    \E r, q \in Reqs :
       /\ nfields[r] = 2 /\ IsSome(dwg_file_path[r])
       /\ nfields[q] = 1 /\ failure[q].site = "bad_ext" /\ Responded(q, 400)

\* the stages of the handler in program order
Rank(l) ==
    CASE l = "idle" -> 0
      [] l = "next_field" -> 1
      [] l = "bytes" -> 2
      [] l = "write" -> 3
      [] l = "launch" -> 4
      [] l = "waiting" -> 5
      [] l = "read" -> 6
      [] l = "remove_dwg" -> 7
      [] l = "remove_dxf" -> 8
      [] OTHER -> 9

\* the failures of the ingest stage
IngestSites == ClientSites \cup {"create", "write"}

\* C14: the stages run in the order ingest, convert, respond and a failure
\* ends the request. The tool is started at most once per request, from the
\* convert stage only, when the request's input temp file holds the whole
\* upload and nothing has failed, with the arguments -o <own output path>
\* <own input path>; it is never started for a request whose ingestion
\* failed; the output file is read only after the tool exited 0 and wrote the
\* output; after a failure nothing more happens for the request.
C14_StagesInOrder ==
    /\ [](\A r \in Reqs :
            /\ proc[r].state # "none"
                 => /\ proc[r].args = <<"-o", Unwrap(dxf_path[r]), Unwrap(dwg_file_path[r])>>
                    /\ failure[r].site \notin IngestSites \cup {"launch"}
            /\ proc[r].state = "running"
                 => IsSome(data[r]) /\ fs[Unwrap(dwg_file_path[r])] = data[r]
            /\ proc[r].state = "exited" => proc[r].read = data[r]
            /\ failure[r].site \in IngestSites \cup {"launch"} => proc[r] = NoProc
            /\ (pc[r] = "read" \/ IsSome(file_content[r]))
                 => ExitedZero(r) /\ IsSome(proc[r].wrote))
    /\ [][\A r \in Reqs :
            /\ Rank(pc'[r]) >= Rank(pc[r])
            /\ (proc[r].state = "none" /\ proc'[r].state # "none")
                 => /\ pc[r] = "launch"
                    /\ proc'[r].state = "running"
                    /\ fs[Unwrap(dwg_file_path[r])] = data[r]
                    /\ failure[r].site = "none"
            /\ proc[r].state # "none"
                 => /\ proc'[r].args = proc[r].args
                    /\ proc'[r].state # "none"
                    /\ proc[r].state = "exited" => proc'[r] = proc[r]
            /\ failure[r].site # "none"
                 => /\ pc[r] = "done" /\ pc'[r] = "done"
                    /\ proc'[r] = proc[r] /\ resp'[r] = resp[r]
                    /\ failure'[r] = failure[r]]_vars

C14_Witness ==
    \E r, q \in Reqs :
       /\ IsSome(file_content[r]) /\ ExitedZero(r)
       /\ failure[q].site = "write" /\ proc[q] = NoProc /\ pc[q] = "done"

\* C15: a failed cleanup is never surfaced. Once the output has been read the
\* request cannot fail any more: remove_file is called once on the input file
\* and then, whatever the outcome, once on the output file, and the request is
\* answered 200 with the bytes read, whether the files are gone or not.
C15_CleanupFailuresSwallowed ==
    \A r \in Reqs :
       IsSome(file_content[r])
       => /\ failure[r].site = "none"
          /\ pc[r] \in {"remove_dwg", "remove_dxf", "done"}
          /\ attempts[Unwrap(dwg_file_path[r])] = (IF pc[r] = "remove_dwg" THEN 0 ELSE 1)
          /\ attempts[Unwrap(dxf_path[r])] = (IF pc[r] = "done" THEN 1 ELSE 0)
          /\ pc[r] = "done"
               => resp[r] = Some([ status |-> 200,
                                   body |-> Unwrap(file_content[r]),
                                   content_type |-> "application/octet-stream",
                                   content_disposition |->
                                       Some(ContentDisposition(Unwrap(dxf_path[r]))) ])

\* both deletions failed and the answer is still 200
C15_Witness ==
    \E r \in Reqs :
       /\ Converted(r)
       /\ IsSome(fs[Unwrap(dwg_file_path[r])]) /\ IsSome(fs[Unwrap(dxf_path[r])])
       /\ attempts[Unwrap(dwg_file_path[r])] = 1 /\ attempts[Unwrap(dxf_path[r])] = 1

\* C16: a /convert request whose multipart stream ends or errors and whose
\* external process, if started, exits is eventually over (answered, or its
\* connection closed): the only way for it to stay unanswered for ever is
\* that its own external process never exits.
C16_Terminates ==
    \A r \in Reqs :
       [](pc[r] = "next_field"
            => <>(Ended(r) \/ [](proc[r].state = "running")))

\* C17: a request answered 400 has touched neither the filesystem nor the
\* process table: it has created no temp file, drawn no identifier for a
\* path, started no process, and no remove_file was called for it.
C17_BadRequestHasNoEffect ==
    \A r \in Reqs :
       Responded(r, 400)
       => /\ created[r] = {} /\ PathsOf(r) = {}
          /\ dwg_file_path[r] = None /\ dxf_path[r] = None
          /\ data[r] = None /\ file_content[r] = None
          /\ proc[r] = NoProc
          /\ failure[r].site \in ClientSites

C17_Witness ==
    \E r, q \in Reqs :
       /\ Responded(r, 400) /\ failure[r].site = "body_read"
       /\ Responded(q, 500) /\ failure[q].site = "write" /\ created[q] # {}

\* C18: between the start of the external tool and the test of its exit
\* status the handler cannot be cancelled: while the child of a request runs,
\* the handler is alive and blocked on it, holding its worker thread; a
\* request whose connection was closed has no running child; and once the
\* handler has moved on, the exit status has been observed (a nonzero status
\* has become the "Conversion failed" error).
C18_NoCancelWhileChildRuns ==
    \A r \in Reqs :
       /\ proc[r].state = "running" => pc[r] = "waiting" /\ held[r]
       /\ pc[r] = "cancelled" => proc[r].state # "running"
       /\ (proc[r].state = "exited" /\ pc[r] # "waiting")
            => IF proc[r].status # 0
               THEN pc[r] = "done" /\ failure[r].site = "nonzero"
               ELSE failure[r].site \in {"none", "missing", "readback"}
       /\ (pc[r] = "cancelled" /\ proc[r].state = "exited")
            => ExitedZero(r) /\ IsSome(proc[r].wrote)

C18_Witness ==
    \E r, q \in Reqs :
       /\ proc[r].state = "running" /\ pc[r] = "waiting"
       /\ pc[q] = "cancelled" /\ proc[q].state = "exited"

====
